---- MODULE Spec2Model ----
(***************************************************************************)
(* Model of the weather service in src/image/main.py: the /weather handler *)
(* get_weather, ensure_fresh_data (freshness check, fetch, dedup, ingest,  *)
(* re-verify) and the statistics step, against a store (the WeatherData    *)
(* table) that is append-only and eventually consistent.                   *)
(*                                                                         *)
(* Calendar dates are day ordinals (integers): the value that the API's    *)
(* 'YYYY-MM-DD' string, the store's datetime at midnight and the           *)
(* format_datetime(Date,'yyyy-MM-dd') string of one day all denote.        *)
(*                                                                         *)
(* Requests are independent units of work (one per worker or replica); the *)
(* store is the only state they share, so every store call and every       *)
(* upstream call is one atomic step, and steps of different requests       *)
(* interleave freely.                                                      *)
(*                                                                         *)
(* A request waits for the geocoder between entering the handler and the   *)
(* name tests, so that entering and the geocoder's answer are two steps.   *)
(*                                                                         *)
(* The repository holds a second program, src/main.py, whose /weather      *)
(* route has no filter, counts the rows of the last 30 days as its         *)
(* freshness test and pauses before it verifies. Its steps are the Main    *)
(* actions; SpecPrograms starts as either program.                         *)
(*                                                                         *)
(* SpecFunctions applies prepare_ingestion_data, the dedup filter and the  *)
(* weather-code lookup of get_weather_stats alone, to inputs drawn from    *)
(* bounded sets: series with attributes, which the requests of the state   *)
(* machine do not carry.                                                   *)
(***************************************************************************)
EXTENDS Integers, Sequences, FiniteSets, TLC

\* ---- program constants ------------------------------------------------
PAST_DAYS == 30
FORECAST_DAYS == 1
MIN_DATA_POINTS == 30
MAX_DATE_DIFFERENCE == 1
STATS_WINDOW_DAYS == 30
\* latest_date "" (no rows for the city)
NoDate == -1
\* None as a value of the series or of the statistics row
None == -1

\* ---- bounds of the model ------------------------------------------------
NumRequests == 2
MaxStarted == 2
MaxAge == 2
MaxPending == 2
MaxLen == 3
MaxCode == 100

Requests == 1..NumRequests
\* the server's date when the model starts; early enough dates stay >= 0
StartDay == PAST_DAYS + FORECAST_DAYS + MaxAge
\* the days a row can be of: up to MaxAge days after the server's date
LastDay == StartDay + MaxAge
Dates == 0..LastDay

\* ---- city names ---------------------------------------------------------
\* the texts a user types, and str.lower() on them
CityInputs == {"Paris", "paris", "Pari"}
GeoNames == {"Paris"}
Lower == [n \in CityInputs \cup GeoNames |->
            CASE n = "Paris" -> "paris"
              [] n = "paris" -> "paris"
              [] n = "Pari" -> "pari"]
\* the keys under which the table holds rows (tolower(CityName))
Cities == {"paris"}

VARIABLES
  today,          \* datetime.now().date(): the runs of the model are within one day
  clients_ok,     \* query_client and ingest_client are not None
  store,          \* queryable rows: city -> date -> number of rows
  pending,        \* appended batches that are not queryable yet
  pc,             \* where each request stands
  city,           \* get_weather: city (lowercased)
  is_fresh,       \* ensure_fresh_data: is_fresh
  latest_date,    \* ensure_fresh_data: latest_date
  daily_time,     \* ensure_fresh_data: daily_data["time"]
  existing_dates, \* ensure_fresh_data: existing_dates
  coordinates,    \* get_weather of src/main.py: neither lat nor lon is None
  response,       \* what get_weather returned
  efd_result,     \* what ensure_fresh_data returned
  last_check,     \* outcome of the request's latest check_data_freshness
  failure,        \* the failure kind that ended the request
  fetch_calls,    \* calls of get_weather_data in the request
  existing_calls, \* existing-dates queries in the request
  ingest_calls,   \* ingest_from_stream calls in the request
  stats_calls,    \* get_weather_stats calls in the request
  check_calls,    \* check_data_freshness calls in the request
  racing,         \* the requests that were in flight and had not ingested
                  \* when this request read its existing-dates snapshot
  started,        \* requests received so far
  overlapped,     \* some request started while another was in progress
  input,          \* the arguments of a function of the service applied alone
  output,         \* what the function returned for them
  program         \* the program that serves the requests: "image" is
                  \* src/image/main.py, "main" is src/main.py

env == <<today, clients_ok, store, pending>>
locals == <<city, is_fresh, latest_date, daily_time, existing_dates, coordinates>>
outcome == <<response, efd_result, last_check, failure>>
counters == <<fetch_calls, existing_calls, ingest_calls, stats_calls, check_calls>>
pure == <<input, output>>
vars == <<env, pc, locals, outcome, counters, racing, started, overlapped, pure, program>>

\* ---- helpers ------------------------------------------------------------
Abs(x) == IF x < 0 THEN 0 - x ELSE x

RECURSIVE SumTo(_, _)
SumTo(f, n) == IF n < 0 THEN 0 ELSE f[n] + SumTo(f, n - 1)

Max(S) == CHOOSE x \in S : \A y \in S : y <= x

Range(lo, hi) == [d \in Dates |-> IF lo <= d /\ d <= hi THEN 1 ELSE 0]
EmptyRows == [d \in Dates |-> 0]

\* ---- the daily series ---------------------------------------------------
\* a dict is the sequence of its entries in key order; each entry of the
\* daily series holds the list of one key
Keys(daily_data) == [i \in 1..Len(daily_data) |-> daily_data[i].key]
HasKey(daily_data, key) == \E i \in 1..Len(daily_data) : daily_data[i].key = key
Values(daily_data, key) ==
  daily_data[CHOOSE i \in 1..Len(daily_data) : daily_data[i].key = key].values

\* the series of a request, of which the model keeps the time list alone
TimeSeries(dates) == <<[key |-> "time", values |-> dates]>>

\* ",".join(row_values): the fields with a comma between neighbours
RECURSIVE Join(_)
Join(row_values) ==
  IF Len(row_values) <= 1
    THEN row_values
    ELSE <<Head(row_values), ",">> \o Join(Tail(row_values))

\* the columns the store's CSV mapping reads from a row: city, then date
RowCity(row) == row[1]
RowDate(row) == row[3]

\* no function has been applied alone
NoInput == [op |-> "none", city |-> "", daily_data |-> <<>>,
            existing_dates |-> {}, weather_code |-> None]
NoOutput == [op |-> "none"]

\* ---- initial state ------------------------------------------------------
\* the table as the service finds it: no rows for a city, or one row per day
\* over a run of days that ended at most MaxAge days ago
InitCounts == {MIN_DATA_POINTS - 1, MIN_DATA_POINTS, PAST_DAYS + FORECAST_DAYS}
InitRows == {EmptyRows} \cup
            {Range(StartDay - age - n + 1, StartDay - age) :
               n \in InitCounts, age \in 0..MaxAge}

\* everything but the table
InitService ==
  /\ today = StartDay
  /\ clients_ok \in BOOLEAN
  /\ pending = <<>>
  /\ pc = [r \in Requests |-> "idle"]
  /\ city = [r \in Requests |-> ""]
  /\ is_fresh = [r \in Requests |-> FALSE]
  /\ latest_date = [r \in Requests |-> NoDate]
  /\ daily_time = [r \in Requests |-> <<>>]
  /\ existing_dates = [r \in Requests |-> {}]
  /\ coordinates = [r \in Requests |-> FALSE]
  /\ response = [r \in Requests |-> "none"]
  /\ efd_result = [r \in Requests |-> "none"]
  /\ last_check = [r \in Requests |-> "none"]
  /\ failure = [r \in Requests |-> "none"]
  /\ fetch_calls = [r \in Requests |-> 0]
  /\ existing_calls = [r \in Requests |-> 0]
  /\ ingest_calls = [r \in Requests |-> 0]
  /\ stats_calls = [r \in Requests |-> 0]
  /\ check_calls = [r \in Requests |-> 0]
  /\ racing = [r \in Requests |-> {}]
  /\ started = 0
  /\ overlapped = FALSE

Init ==
  /\ \E c \in Cities, rows \in InitRows :
       store = [x \in Cities |-> IF x = c THEN rows ELSE EmptyRows]
  /\ InitService
  /\ input = NoInput
  /\ output = NoOutput
  /\ program = "image"

\* the inputs of check_data_freshness drawn from a wider set: the latest
\* stored day lies up to MaxAge days before or after the server's date
InputRows == {EmptyRows} \cup
             {Range(latest - n + 1, latest) :
                n \in InitCounts, latest \in (StartDay - MaxAge)..(StartDay + MaxAge)}

InitInputs ==
  /\ \E c \in Cities, rows \in InputRows :
       store = [x \in Cities |-> IF x = c THEN rows ELSE EmptyRows]
  /\ InitService
  /\ input = NoInput
  /\ output = NoOutput
  /\ program = "image"

\* ---- the store's query and ingest interfaces ----------------------------
\* WeatherData | where tolower(CityName) == c | summarize max(Date), count()
QueryLatestDate(c) ==
  LET days == {d \in Dates : store[c][d] > 0} IN
  [LatestDate |-> IF days = {} THEN NoDate ELSE Max(days),
   DataPoints |-> SumTo(store[c], LastDay)]

\* WeatherData | where tolower(CityName) == c | summarize make_set(DateStr)
QueryExistingDates(c) == {d \in Dates : store[c][d] > 0}

\* WeatherData | where tolower(CityName) == c | where Date >= ago(30d):
\* a row's Date is its day's midnight and ago(30d) lies within day now - 30
QueryStatsHasRows(c, now) ==
  \E d \in Dates : store[c][d] > 0 /\ d > now - STATS_WINDOW_DAYS

\* the rows of a CSV batch become queryable
AddRows(st, rows) ==
  [c \in Cities |-> [d \in Dates |->
     st[c][d] + Cardinality({i \in DOMAIN rows :
                               RowCity(rows[i]) = c /\ RowDate(rows[i]) = d})]]

\* ---- pure functions of the service --------------------------------------
\* mutant: a latest date of yesterday counts as stale
check_data_freshness_today_only(c, now) ==
  LET row == QueryLatestDate(c) IN
  IF row.LatestDate = NoDate
    THEN [is_fresh |-> FALSE, latest_date |-> NoDate]
    ELSE LET date_difference == Abs(now - row.LatestDate) IN
         [is_fresh |-> date_difference < MAX_DATE_DIFFERENCE
                        /\ row.DataPoints >= MIN_DATA_POINTS,
          latest_date |-> row.LatestDate]

\* mutant: recency alone makes the data fresh
check_data_freshness_or(c, now) ==
  LET row == QueryLatestDate(c) IN
  IF row.LatestDate = NoDate
    THEN [is_fresh |-> FALSE, latest_date |-> NoDate]
    ELSE LET date_difference == Abs(now - row.LatestDate) IN
         [is_fresh |-> date_difference <= MAX_DATE_DIFFERENCE
                        \/ row.DataPoints >= MIN_DATA_POINTS,
          latest_date |-> row.LatestDate]

check_data_freshness(c, now) ==
  LET row == QueryLatestDate(c) IN
  IF row.LatestDate = NoDate
    THEN [is_fresh |-> FALSE, latest_date |-> NoDate]
    ELSE LET date_difference == Abs(now - row.LatestDate) IN
         [is_fresh |-> date_difference <= MAX_DATE_DIFFERENCE
                        /\ row.DataPoints >= MIN_DATA_POINTS,
          latest_date |-> row.LatestDate]

\* weather_data["daily"] of the forecast response: past_days before today,
\* and today (the state machine keeps the time list alone)
get_weather_data(now) ==
  TimeSeries([i \in 1..(PAST_DAYS + FORECAST_DAYS) |-> now - PAST_DAYS + i - 1])

\* the indices of the dates the filter keeps, ascending
KeptIndices(dates, existing) ==
  SelectSeq([i \in 1..Len(dates) |-> i], LAMBDA i : dates[i] \notin existing)

\* daily_data["time"] raises KeyError, or daily_data[key][i] raises
\* IndexError for a kept index i
FilterRaises(daily_data, existing) ==
  \/ ~HasKey(daily_data, "time")
  \/ LET kept == KeptIndices(Values(daily_data, "time"), existing) IN
     \E j \in 1..Len(kept), k \in 1..Len(daily_data) :
       Len(daily_data[k].values) < kept[j]

\* mutant: nothing is filtered out
filtered_daily_data_unfiltered(daily_data, existing) == daily_data

\* mutant: the time list is filtered, the attribute lists are taken whole
filtered_daily_data_time_only(daily_data, existing) ==
  LET kept == KeptIndices(Values(daily_data, "time"), existing) IN
  [k \in 1..Len(daily_data) |->
     [key |-> daily_data[k].key,
      values |-> IF daily_data[k].key = "time"
                   THEN [j \in 1..Len(kept) |-> daily_data[k].values[kept[j]]]
                   ELSE daily_data[k].values]]

\* the dedup filter: for every date that is not in existing_dates, in the
\* order of the dates, the value of every key at the index of the date
filtered_daily_data(daily_data, existing) ==
  LET kept == KeptIndices(Values(daily_data, "time"), existing) IN
  [k \in 1..Len(daily_data) |->
     [key |-> daily_data[k].key,
      values |-> [j \in 1..Len(kept) |-> daily_data[k].values[kept[j]]]]]

\* str(value) of a number
str(value) == ToString(value)

\* (None, None): an exception was caught
PrepareFailed == [ok |-> FALSE, ingestion_data |-> <<>>, weather_attributes |-> <<>>]

\* mutant: a None value adds no field to the row
prepare_ingestion_data_skipping_none(c, daily_data) ==
  IF ~HasKey(daily_data, "time")
    THEN PrepareFailed
    ELSE
      LET dates == Values(daily_data, "time")
          weather_attributes == SelectSeq(Keys(daily_data), LAMBDA key : key # "time")
          value(attr, i) == Values(daily_data, attr)[i]
          present(i) == SelectSeq(weather_attributes, LAMBDA attr : value(attr, i) # None)
          row_values(i) ==
            <<c, dates[i]>> \o
            [a \in 1..Len(present(i)) |-> str(value(present(i)[a], i))]
      IN IF \E i \in 1..Len(dates), a \in 1..Len(weather_attributes) :
              Len(Values(daily_data, weather_attributes[a])) < i
           THEN PrepareFailed
           ELSE [ok |-> TRUE,
                 ingestion_data |-> [i \in 1..Len(dates) |-> Join(row_values(i))],
                 weather_attributes |-> weather_attributes]

\* one CSV row per entry of time: city, date, then every other key's value
\* at that index, in key order; a missing key or index is caught
prepare_ingestion_data(c, daily_data) ==
  IF ~HasKey(daily_data, "time")
    THEN PrepareFailed
    ELSE
      LET dates == Values(daily_data, "time")
          weather_attributes == SelectSeq(Keys(daily_data), LAMBDA key : key # "time")
          value(attr, i) == Values(daily_data, attr)[i]
          row_values(i) ==
            <<c, dates[i]>> \o
            [a \in 1..Len(weather_attributes) |->
               IF value(weather_attributes[a], i) # None
                 THEN str(value(weather_attributes[a], i))
                 ELSE ""]
      IN IF \E i \in 1..Len(dates), a \in 1..Len(weather_attributes) :
              Len(Values(daily_data, weather_attributes[a])) < i
           THEN PrepareFailed
           ELSE [ok |-> TRUE,
                 ingestion_data |-> [i \in 1..Len(dates) |-> Join(row_values(i))],
                 weather_attributes |-> weather_attributes]

\* ---- get_weather_stats: the weather code ---------------------------------
\* the description of each known weather code
weather_codes ==
  (0 :> "Clear sky") @@
  (1 :> "Mainly clear") @@
  (2 :> "Partly cloudy") @@
  (3 :> "Overcast") @@
  (45 :> "Foggy") @@
  (48 :> "Depositing rime fog") @@
  (51 :> "Light drizzle") @@
  (53 :> "Moderate drizzle") @@
  (55 :> "Dense drizzle") @@
  (61 :> "Slight rain") @@
  (63 :> "Moderate rain") @@
  (65 :> "Heavy rain") @@
  (71 :> "Slight snow fall") @@
  (73 :> "Moderate snow fall") @@
  (75 :> "Heavy snow fall") @@
  (77 :> "Snow grains") @@
  (80 :> "Slight rain showers") @@
  (81 :> "Moderate rain showers") @@
  (82 :> "Violent rain showers") @@
  (85 :> "Slight snow showers") @@
  (86 :> "Heavy snow showers") @@
  (95 :> "Thunderstorm") @@
  (96 :> "Thunderstorm with slight hail") @@
  (99 :> "Thunderstorm with heavy hail")

\* the icon of each known weather code
icon_map ==
  (0 :> "01d") @@
  (1 :> "01d") @@
  (2 :> "02d") @@
  (3 :> "03d") @@
  (45 :> "03d") @@
  (48 :> "03d") @@
  (51 :> "09d") @@
  (53 :> "09d") @@
  (55 :> "09d") @@
  (61 :> "09d") @@
  (63 :> "09d") @@
  (65 :> "09d") @@
  (71 :> "13d") @@
  (73 :> "13d") @@
  (75 :> "13d") @@
  (77 :> "13d") @@
  (80 :> "09d") @@
  (81 :> "09d") @@
  (82 :> "09d") @@
  (85 :> "13d") @@
  (86 :> "13d") @@
  (95 :> "11d") @@
  (96 :> "11d") @@
  (99 :> "11d")

\* dict.get(key, default)
Get(dict, key, default) == IF key \in DOMAIN dict THEN dict[key] ELSE default

\* mutant: a code outside the table is described as clear sky
weather_description_clear(weather_code) == Get(weather_codes, weather_code, "Clear sky")

weather_description(weather_code) == Get(weather_codes, weather_code, "Unknown")
icon_code(weather_code) == Get(icon_map, weather_code, "01d")

\* ---- exceptions and returns --------------------------------------------
\* the steps whose exceptions ensure_fresh_data catches itself (it then
\* returns False): the existing-dates try block and the ingestion try block
EnsureFreshDataCatches(step) == step \in {"existing", "ingest", "verify"}

\* mutant: get_weather_stats is called outside the try block
GetWeatherCatches_without_stats(step) ==
  step \in {"check", "fetch", "existing", "ingest", "verify"}

\* the steps inside the try block of get_weather
GetWeatherCatches(step) ==
  step \in {"check", "fetch", "existing", "ingest", "verify", "stats"}

\* the frame of ensure_fresh_data is gone, and so are the names the rest of
\* the request does not read
DropLocals(r) ==
  /\ coordinates' = [coordinates EXCEPT ![r] = FALSE]
  /\ is_fresh' = [is_fresh EXCEPT ![r] = FALSE]
  /\ latest_date' = [latest_date EXCEPT ![r] = NoDate]
  /\ daily_time' = [daily_time EXCEPT ![r] = <<>>]
  /\ existing_dates' = [existing_dates EXCEPT ![r] = {}]
  /\ racing' = [racing EXCEPT ![r] = {}]

\* get_weather returns resp; ensure_fresh_data had returned efd
Return(r, resp, efd, kind) ==
  /\ pc' = [pc EXCEPT ![r] = "done"]
  /\ response' = [response EXCEPT ![r] = resp]
  /\ efd_result' = [efd_result EXCEPT ![r] = efd]
  /\ failure' = [failure EXCEPT ![r] = kind]
  /\ DropLocals(r)

\* ensure_fresh_data returns True: get_weather goes on to the statistics
ReturnTrue(r) ==
  /\ pc' = [pc EXCEPT ![r] = "stats"]
  /\ efd_result' = [efd_result EXCEPT ![r] = "true"]
  /\ DropLocals(r)
  /\ UNCHANGED <<response, failure>>

\* mutant: get_weather does not look at what ensure_fresh_data returned
ReturnFalse_ignored(r, kind) ==
  /\ pc' = [pc EXCEPT ![r] = "stats"]
  /\ efd_result' = [efd_result EXCEPT ![r] = "false"]
  /\ failure' = [failure EXCEPT ![r] = kind]
  /\ DropLocals(r)
  /\ UNCHANGED response

\* ensure_fresh_data returns False: get_weather answers with its error text
ReturnFalse(r, kind) == Return(r, "could_not_ensure", "false", kind)

\* an exception raised in step: caught by the innermost try that covers it
Raise(r, step, kind) ==
  IF EnsureFreshDataCatches(step)
    THEN ReturnFalse(r, kind)
    ELSE Return(r, IF GetWeatherCatches(step) THEN "error_occurred" ELSE "escaped",
                IF step = "stats" THEN efd_result[r] ELSE "raised", kind)

\* ---- get_weather, up to the call of ensure_fresh_data --------------------
\* the handler is entered: the clients test, then the request waits for the
\* geocoder (await get_city_coordinates), and other requests run meanwhile
Receive(r, name) ==
  /\ program = "image"
  /\ pc[r] \in {"idle", "done"}
  /\ started < MaxStarted
  /\ started' = started + 1
  /\ overlapped' = (overlapped \/ \E o \in Requests : pc[o] \notin {"idle", "done"})
  /\ last_check' = [last_check EXCEPT ![r] = "none"]
  /\ fetch_calls' = [fetch_calls EXCEPT ![r] = 0]
  /\ existing_calls' = [existing_calls EXCEPT ![r] = 0]
  /\ ingest_calls' = [ingest_calls EXCEPT ![r] = 0]
  /\ stats_calls' = [stats_calls EXCEPT ![r] = 0]
  /\ check_calls' = [check_calls EXCEPT ![r] = 0]
  /\ city' = [city EXCEPT ![r] = name]
  /\ UNCHANGED <<env, pure, program>>
  /\ IF ~clients_ok
       THEN Return(r, "not_initialized", "none", "StoreUnavailable")
       ELSE /\ pc' = [pc EXCEPT ![r] = "geocode"]
            /\ response' = [response EXCEPT ![r] = "none"]
            /\ efd_result' = [efd_result EXCEPT ![r] = "none"]
            /\ failure' = [failure EXCEPT ![r] = "none"]
            /\ DropLocals(r)

\* get_city_coordinates returns and the name tests follow; geo is what the
\* geocoder did: a name, no result, or an error (which get_city_coordinates
\* turns into no result)
\* lat and lon are handed on to get_weather_data untested: whatever they are,
\* what the forecast client answers is the choice of Fetch
Geocode(r, geo) ==
  /\ pc[r] = "geocode"
  /\ UNCHANGED <<env, last_check, counters, started, overlapped, pure, program>>
  /\ LET guessed_city == IF geo \in GeoNames THEN geo ELSE "" IN
     IF guessed_city = ""
       THEN /\ Return(r, "invalid_city", "none", "UnresolvedCity")
            /\ UNCHANGED city
       ELSE IF Lower[city[r]] # Lower[guessed_city]
         THEN /\ Return(r, "inaccurate_city", "none", "AmbiguousCity")
              /\ UNCHANGED city
         ELSE /\ city' = [city EXCEPT ![r] = Lower[city[r]]]
              /\ pc' = [pc EXCEPT ![r] = "check"]
              /\ DropLocals(r)
              /\ UNCHANGED <<response, efd_result, failure>>

\* ---- ensure_fresh_data --------------------------------------------------
\* the initial check_data_freshness, and the branch on is_fresh
Check(r) ==
  /\ pc[r] = "check"
  /\ LET res == check_data_freshness(city[r], today) IN
     /\ last_check' = [last_check EXCEPT ![r] =
                         IF res.is_fresh THEN "fresh" ELSE "stale"]
     /\ IF res.is_fresh
          THEN ReturnTrue(r)
          ELSE /\ is_fresh' = [is_fresh EXCEPT ![r] = res.is_fresh]
               /\ latest_date' = [latest_date EXCEPT ![r] = res.latest_date]
               /\ pc' = [pc EXCEPT ![r] = "fetch"]
               /\ UNCHANGED <<daily_time, existing_dates, coordinates, racing,
                              response, efd_result, failure>>
  /\ check_calls' = [check_calls EXCEPT ![r] = @ + 1]
  /\ UNCHANGED <<env, city, fetch_calls, existing_calls, ingest_calls,
                 stats_calls, started, overlapped, pure, program>>

\* query_client.execute raises in the initial check
CheckFails(r) ==
  /\ pc[r] = "check"
  /\ last_check' = [last_check EXCEPT ![r] = "error"]
  /\ Raise(r, "check", "StoreUnavailable")
  /\ check_calls' = [check_calls EXCEPT ![r] = @ + 1]
  /\ UNCHANGED <<env, city, fetch_calls, existing_calls, ingest_calls,
                 stats_calls, started, overlapped, pure, program>>

\* get_weather_data: None (the client failed), a response without "daily",
\* or a response with the daily series
Fetch(r, api) ==
  /\ pc[r] = "fetch"
  /\ fetch_calls' = [fetch_calls EXCEPT ![r] = @ + 1]
  /\ IF api \in {"failed", "no_daily"}
       THEN ReturnFalse(r, "UpstreamFetchFailure")
       ELSE /\ daily_time' = [daily_time EXCEPT ![r] = Values(get_weather_data(today), "time")]
            /\ pc' = [pc EXCEPT ![r] =
                        IF latest_date[r] # NoDate THEN "existing" ELSE "ingest"]
            /\ UNCHANGED <<is_fresh, latest_date, existing_dates, coordinates, racing,
                           response, efd_result, failure>>
  /\ UNCHANGED <<env, city, last_check, existing_calls, ingest_calls,
                 stats_calls, check_calls, started, overlapped, pure, program>>

\* the existing-dates query and the dedup filter
Existing(r) ==
  /\ pc[r] = "existing"
  /\ existing_calls' = [existing_calls EXCEPT ![r] = @ + 1]
  /\ LET existing == QueryExistingDates(city[r])
         filtered == Values(filtered_daily_data(TimeSeries(daily_time[r]), existing),
                            "time") IN
     IF filtered = <<>>
       THEN ReturnTrue(r)
       ELSE /\ existing_dates' = [existing_dates EXCEPT ![r] = existing]
            /\ daily_time' = [daily_time EXCEPT ![r] = filtered]
            /\ racing' = [racing EXCEPT ![r] =
                            {o \in Requests \ {r} :
                               /\ pc[o] \in {"geocode", "check", "fetch", "existing",
                                             "ingest"}
                               /\ ingest_calls[o] = 0}]
            /\ pc' = [pc EXCEPT ![r] = "ingest"]
            /\ UNCHANGED <<is_fresh, latest_date, coordinates, response, efd_result,
                           failure>>
  /\ UNCHANGED <<env, city, last_check, fetch_calls, ingest_calls,
                 stats_calls, check_calls, started, overlapped, pure, program>>

\* query_client.execute raises in the existing-dates query
ExistingFails(r) ==
  /\ pc[r] = "existing"
  /\ existing_calls' = [existing_calls EXCEPT ![r] = @ + 1]
  /\ Raise(r, "existing", "StoreUnavailable")
  /\ UNCHANGED <<env, city, last_check, fetch_calls, ingest_calls,
                 stats_calls, check_calls, started, overlapped, pure, program>>

\* mutant: the ingest leaves out the dates that the store holds or that are
\* on their way by now
Ingest_coordinated(r) ==
  /\ pc[r] = "ingest"
  /\ LET taken == QueryExistingDates(city[r]) \cup
                  {d \in Dates : \E i \in DOMAIN pending : \E j \in DOMAIN pending[i] :
                                   RowCity(pending[i][j]) = city[r] /\ RowDate(pending[i][j]) = d}
         ingestion_data == prepare_ingestion_data(city[r],
                              filtered_daily_data(TimeSeries(daily_time[r]), taken)) IN
     /\ Len(pending) < MaxPending
     /\ pending' = Append(pending, ingestion_data.ingestion_data)
     /\ ingest_calls' = [ingest_calls EXCEPT ![r] = @ + 1]
     /\ pc' = [pc EXCEPT ![r] = "verify"]
     /\ UNCHANGED <<locals, racing, response, efd_result, failure>>
  /\ UNCHANGED <<today, clients_ok, store, city, last_check, fetch_calls,
                 existing_calls, stats_calls, check_calls, started, overlapped, pure, program>>

\* prepare_ingestion_data and ingest_from_stream: the batch is appended, and
\* is not queryable yet
Ingest(r) ==
  /\ pc[r] = "ingest"
  /\ LET ingestion_data ==
           prepare_ingestion_data(city[r], TimeSeries(daily_time[r])).ingestion_data IN
     IF ingestion_data = <<>>
       THEN /\ ReturnFalse(r, "IngestionFailure")
            /\ UNCHANGED <<pending, ingest_calls>>
       ELSE /\ Len(pending) < MaxPending
            /\ pending' = Append(pending, ingestion_data)
            /\ ingest_calls' = [ingest_calls EXCEPT ![r] = @ + 1]
            /\ pc' = [pc EXCEPT ![r] = "verify"]
            /\ UNCHANGED <<locals, racing, response, efd_result, failure>>
  /\ UNCHANGED <<today, clients_ok, store, city, last_check, fetch_calls,
                 existing_calls, stats_calls, check_calls, started, overlapped, pure, program>>

\* mutant: a failed ingest call is made again
IngestFails_retried(r) ==
  /\ pc[r] = "ingest"
  /\ ingest_calls[r] < 3
  /\ ingest_calls' = [ingest_calls EXCEPT ![r] = @ + 1]
  /\ UNCHANGED <<env, pc, locals, outcome, racing, fetch_calls, existing_calls,
                 stats_calls, check_calls, started, overlapped, pure, program>>

\* ingest_from_stream raises: nothing is appended
IngestFails(r) ==
  /\ pc[r] = "ingest"
  /\ prepare_ingestion_data(city[r], TimeSeries(daily_time[r])).ingestion_data # <<>>
  /\ ingest_calls' = [ingest_calls EXCEPT ![r] = @ + 1]
  /\ Raise(r, "ingest", "IngestionFailure")
  /\ UNCHANGED <<env, city, last_check, fetch_calls, existing_calls,
                 stats_calls, check_calls, started, overlapped, pure, program>>

\* mutant: the ingest is trusted, no check follows it
Verify_skipped(r) ==
  /\ pc[r] = "verify"
  /\ ReturnTrue(r)
  /\ UNCHANGED <<env, city, last_check, counters, started, overlapped, pure, program>>

\* the check_data_freshness after the ingest
Verify(r) ==
  /\ pc[r] = "verify"
  /\ LET res == check_data_freshness(city[r], today) IN
     /\ last_check' = [last_check EXCEPT ![r] =
                         IF res.is_fresh THEN "fresh" ELSE "stale"]
     /\ IF res.is_fresh
          THEN ReturnTrue(r)
          ELSE ReturnFalse(r, "VerificationFailure")
  /\ check_calls' = [check_calls EXCEPT ![r] = @ + 1]
  /\ UNCHANGED <<env, city, fetch_calls, existing_calls, ingest_calls,
                 stats_calls, started, overlapped, pure, program>>

\* query_client.execute raises in the check after the ingest
VerifyFails(r) ==
  /\ pc[r] = "verify"
  /\ last_check' = [last_check EXCEPT ![r] = "error"]
  /\ Raise(r, "verify", "StoreUnavailable")
  /\ check_calls' = [check_calls EXCEPT ![r] = @ + 1]
  /\ UNCHANGED <<env, city, fetch_calls, existing_calls, ingest_calls,
                 stats_calls, started, overlapped, pure, program>>

\* ---- get_weather, after ensure_fresh_data returned True ------------------
\* get_weather_stats and the rendering: result is "empty" (the query gave no
\* result row) or "row"; a row over no data has null averages, which round()
\* rejects
Stats(r, result) ==
  /\ pc[r] = "stats"
  /\ stats_calls' = [stats_calls EXCEPT ![r] = @ + 1]
  /\ IF result = "empty"
       THEN Return(r, "no_data", efd_result[r], "NoDataFound")
       ELSE IF QueryStatsHasRows(city[r], today)
         THEN Return(r, "rendered", efd_result[r], "none")
         ELSE Return(r, "error_occurred", efd_result[r], "NoDataFound")
  /\ UNCHANGED <<env, city, last_check, fetch_calls, existing_calls,
                 ingest_calls, check_calls, started, overlapped, pure, program>>

\* query_client.execute raises in get_weather_stats, or the template does
StatsFails(r) ==
  /\ pc[r] = "stats"
  /\ stats_calls' = [stats_calls EXCEPT ![r] = @ + 1]
  /\ Raise(r, "stats", "StoreUnavailable")
  /\ UNCHANGED <<env, city, last_check, fetch_calls, existing_calls,
                 ingest_calls, check_calls, started, overlapped, pure, program>>

\* ---- the environment ----------------------------------------------------
\* an appended batch becomes queryable
Deliver(i) ==
  /\ i \in 1..Len(pending)
  /\ store' = AddRows(store, pending[i])
  /\ pending' = [j \in 1..(Len(pending) - 1) |->
                   IF j < i THEN pending[j] ELSE pending[j + 1]]
  /\ UNCHANGED <<today, clients_ok, pc, locals, outcome, counters, racing,
                 started, overlapped, pure, program>>

Next ==
  \/ \E r \in Requests, name \in CityInputs : Receive(r, name)
  \/ \E r \in Requests, geo \in GeoNames \cup {"none", "error"} : Geocode(r, geo)
  \/ \E r \in Requests : Check(r)
  \/ \E r \in Requests : CheckFails(r)
  \/ \E r \in Requests, api \in {"failed", "no_daily", "daily"} : Fetch(r, api)
  \/ \E r \in Requests : Existing(r)
  \/ \E r \in Requests : ExistingFails(r)
  \/ \E r \in Requests : Ingest(r)
  \/ \E r \in Requests : IngestFails(r)
  \/ \E r \in Requests : Verify(r)
  \/ \E r \in Requests : VerifyFails(r)
  \/ \E r \in Requests, result \in {"empty", "row"} : Stats(r, result)
  \/ \E r \in Requests : StatsFails(r)
  \/ \E i \in 1..MaxPending : Deliver(i)

Spec == Init /\ [][Next]_vars

\* the service on the wider set of tables
SpecFreshness == InitInputs /\ [][Next]_vars

\* ---- the service of src/main.py ------------------------------------------
\* WeatherData | where tolower(CityName) == c | where Date >= ago(30d)
\* | summarize RecordCount = count()
QueryRecordCount(c, now) ==
  SumTo(store[c], LastDay) - SumTo(store[c], now - STATS_WINDOW_DAYS)

\* get_weather is entered: the clients test, then the request waits for the
\* geocoder
MainReceive(r, name) ==
  /\ program = "main"
  /\ pc[r] \in {"idle", "done"}
  /\ started < MaxStarted
  /\ started' = started + 1
  /\ overlapped' = (overlapped \/ \E o \in Requests : pc[o] \notin {"idle", "done"})
  /\ last_check' = [last_check EXCEPT ![r] = "none"]
  /\ fetch_calls' = [fetch_calls EXCEPT ![r] = 0]
  /\ existing_calls' = [existing_calls EXCEPT ![r] = 0]
  /\ ingest_calls' = [ingest_calls EXCEPT ![r] = 0]
  /\ stats_calls' = [stats_calls EXCEPT ![r] = 0]
  /\ check_calls' = [check_calls EXCEPT ![r] = 0]
  /\ city' = [city EXCEPT ![r] = name]
  /\ UNCHANGED <<env, pure, program>>
  /\ IF ~clients_ok
       THEN Return(r, "not_initialized", "none", "StoreUnavailable")
       ELSE /\ pc' = [pc EXCEPT ![r] = "main_geocode"]
            /\ response' = [response EXCEPT ![r] = "none"]
            /\ efd_result' = [efd_result EXCEPT ![r] = "none"]
            /\ failure' = [failure EXCEPT ![r] = "none"]
            /\ DropLocals(r)

\* get_city_coordinates returns: three values, or the two of (None, None),
\* which the unpacking into lat, lon, guessed_city rejects; there is no name
\* test, the geocoder's name becomes the city. found: the first result has
\* both a latitude and a longitude (they are returned as they come, null or
\* not)
MainGeocode(r, geo, found) ==
  /\ pc[r] = "main_geocode"
  /\ UNCHANGED <<env, last_check, counters, started, overlapped, pure, program>>
  /\ IF geo \notin GeoNames
       THEN /\ Return(r, "error_occurred", "none", "UnresolvedCity")
            /\ UNCHANGED city
       ELSE /\ city' = [city EXCEPT ![r] = Lower[geo]]
            /\ coordinates' = [coordinates EXCEPT ![r] = found]
            /\ pc' = [pc EXCEPT ![r] = "main_count"]
            /\ UNCHANGED <<is_fresh, latest_date, daily_time, existing_dates, racing,
                           response, efd_result, failure>>

\* Step 1: the record count of the last 30 days, and the branch on it; with
\* fewer than 30 rows the coordinates are tested before anything is fetched
MainCount(r) ==
  /\ pc[r] = "main_count"
  /\ check_calls' = [check_calls EXCEPT ![r] = @ + 1]
  /\ LET result_count == QueryRecordCount(city[r], today) IN
     /\ last_check' = [last_check EXCEPT ![r] =
                         IF result_count < MIN_DATA_POINTS THEN "stale" ELSE "fresh"]
     /\ IF result_count < MIN_DATA_POINTS /\ ~coordinates[r]
          THEN /\ Return(r, "could_not_find_coordinates", "none", "UnresolvedCity")
               /\ UNCHANGED city
          ELSE /\ pc' = [pc EXCEPT ![r] =
                           IF result_count < MIN_DATA_POINTS THEN "main_fetch"
                                                             ELSE "main_stats"]
               /\ UNCHANGED <<locals, racing, response, efd_result, failure>>
  /\ UNCHANGED <<env, fetch_calls, existing_calls, ingest_calls, stats_calls,
                 started, overlapped, pure, program>>

\* query_client.execute raises in the count query
MainCountFails(r) ==
  /\ pc[r] = "main_count"
  /\ check_calls' = [check_calls EXCEPT ![r] = @ + 1]
  /\ last_check' = [last_check EXCEPT ![r] = "error"]
  /\ Return(r, "error_occurred", "none", "StoreUnavailable")
  /\ UNCHANGED <<env, city, fetch_calls, existing_calls, ingest_calls,
                 stats_calls, started, overlapped, pure, program>>

\* get_weather_data: None, a response without "daily", or the daily series
MainFetch(r, api) ==
  /\ pc[r] = "main_fetch"
  /\ fetch_calls' = [fetch_calls EXCEPT ![r] = @ + 1]
  /\ IF api \in {"failed", "no_daily"}
       THEN Return(r, "invalid_weather_api", "none", "UpstreamFetchFailure")
       ELSE /\ daily_time' = [daily_time EXCEPT ![r] =
                                Values(get_weather_data(today), "time")]
            /\ pc' = [pc EXCEPT ![r] = "main_ingest"]
            /\ UNCHANGED <<is_fresh, latest_date, existing_dates, coordinates, racing,
                           response, efd_result, failure>>
  /\ UNCHANGED <<env, city, last_check, existing_calls, ingest_calls,
                 stats_calls, check_calls, started, overlapped, pure, program>>

\* prepare_ingestion_data on the whole fetched series (nothing is filtered)
\* and ingest_from_stream; then the request sleeps
MainIngest(r) ==
  /\ pc[r] = "main_ingest"
  /\ LET ingestion_data ==
           prepare_ingestion_data(city[r], TimeSeries(daily_time[r])).ingestion_data IN
     IF ingestion_data = <<>>
       THEN /\ Return(r, "could_not_prepare", "none", "IngestionFailure")
            /\ UNCHANGED <<pending, ingest_calls>>
       ELSE /\ Len(pending) < MaxPending
            /\ pending' = Append(pending, ingestion_data)
            /\ ingest_calls' = [ingest_calls EXCEPT ![r] = @ + 1]
            /\ pc' = [pc EXCEPT ![r] = "main_verify"]
            /\ UNCHANGED <<locals, racing, response, efd_result, failure>>
  /\ UNCHANGED <<today, clients_ok, store, city, last_check, fetch_calls,
                 existing_calls, stats_calls, check_calls, started, overlapped, pure, program>>

\* ingest_from_stream raises: nothing is appended
MainIngestFails(r) ==
  /\ pc[r] = "main_ingest"
  /\ prepare_ingestion_data(city[r], TimeSeries(daily_time[r])).ingestion_data # <<>>
  /\ ingest_calls' = [ingest_calls EXCEPT ![r] = @ + 1]
  /\ Return(r, "error_storing", "none", "IngestionFailure")
  /\ UNCHANGED <<env, city, last_check, fetch_calls, existing_calls,
                 stats_calls, check_calls, started, overlapped, pure, program>>

\* after asyncio.sleep(3): the record count again, as the verification
MainVerify(r) ==
  /\ pc[r] = "main_verify"
  /\ check_calls' = [check_calls EXCEPT ![r] = @ + 1]
  /\ LET verify_count == QueryRecordCount(city[r], today) IN
     /\ last_check' = [last_check EXCEPT ![r] =
                         IF verify_count < MIN_DATA_POINTS THEN "stale" ELSE "fresh"]
     /\ IF verify_count < MIN_DATA_POINTS
          THEN Return(r, "verification_failed", "none", "VerificationFailure")
          ELSE /\ pc' = [pc EXCEPT ![r] = "main_stats"]
               /\ DropLocals(r)
               /\ UNCHANGED <<response, efd_result, failure>>
  /\ UNCHANGED <<env, city, fetch_calls, existing_calls, ingest_calls,
                 stats_calls, started, overlapped, pure, program>>

\* query_client.execute raises in the verification query
MainVerifyFails(r) ==
  /\ pc[r] = "main_verify"
  /\ check_calls' = [check_calls EXCEPT ![r] = @ + 1]
  /\ last_check' = [last_check EXCEPT ![r] = "error"]
  /\ Return(r, "error_storing", "none", "StoreUnavailable")
  /\ UNCHANGED <<env, city, fetch_calls, existing_calls, ingest_calls,
                 stats_calls, started, overlapped, pure, program>>

\* the statistics query and the rendering: result is "empty" (no result row)
\* or "row"; a row over no data has null averages, which round() rejects
MainStats(r, result) ==
  /\ pc[r] = "main_stats"
  /\ stats_calls' = [stats_calls EXCEPT ![r] = @ + 1]
  /\ IF result = "empty"
       THEN Return(r, "no_data", "none", "NoDataFound")
       ELSE IF QueryStatsHasRows(city[r], today)
         THEN Return(r, "rendered", "none", "none")
         ELSE Return(r, "error_occurred", "none", "NoDataFound")
  /\ UNCHANGED <<env, city, last_check, fetch_calls, existing_calls,
                 ingest_calls, check_calls, started, overlapped, pure, program>>

\* query_client.execute raises in the statistics query, or the template does
MainStatsFails(r) ==
  /\ pc[r] = "main_stats"
  /\ stats_calls' = [stats_calls EXCEPT ![r] = @ + 1]
  /\ Return(r, "error_occurred", "none", "StoreUnavailable")
  /\ UNCHANGED <<env, city, last_check, fetch_calls, existing_calls,
                 ingest_calls, check_calls, started, overlapped, pure, program>>

NextMain ==
  \/ \E r \in Requests, name \in CityInputs : MainReceive(r, name)
  \/ \E r \in Requests, geo \in GeoNames \cup {"none", "error"}, found \in BOOLEAN :
       MainGeocode(r, geo, found)
  \/ \E r \in Requests : MainCount(r)
  \/ \E r \in Requests : MainCountFails(r)
  \/ \E r \in Requests, api \in {"failed", "no_daily", "daily"} : MainFetch(r, api)
  \/ \E r \in Requests : MainIngest(r)
  \/ \E r \in Requests : MainIngestFails(r)
  \/ \E r \in Requests : MainVerify(r)
  \/ \E r \in Requests : MainVerifyFails(r)
  \/ \E r \in Requests, result \in {"empty", "row"} : MainStats(r, result)
  \/ \E r \in Requests : MainStatsFails(r)
  \/ \E i \in 1..MaxPending : Deliver(i)

\* the service as either of the two programs of the repository
InitPrograms ==
  /\ \E c \in Cities, rows \in InitRows :
       store = [x \in Cities |-> IF x = c THEN rows ELSE EmptyRows]
  /\ InitService
  /\ input = NoInput
  /\ output = NoOutput
  /\ program \in {"image", "main"}

NextPrograms == Next \/ NextMain

SpecPrograms == InitPrograms /\ [][NextPrograms]_vars

\* ---- the functions of the service applied alone -------------------------
\* the keys of a daily series: time and two of the attributes asked for
KeyNames == {"time", "weather_code", "temperature_2m_max"}
\* the values of an attribute on a day
AttrValues == {None, 0}

\* every order of every choice of keys
KeyOrders ==
  UNION {{ks \in [1..n -> KeyNames] : \A i, j \in 1..n : ks[i] = ks[j] => i = j} :
           n \in 0..Cardinality(KeyNames)}

\* time: up to MaxLen days, one entry per day, the last of them today
TimeInputs == {[i \in 1..n |-> StartDay - n + i] : n \in 0..MaxLen}

\* the list of an attribute beside a time list of n entries: of its length,
\* or one entry short
AttrLists(n) == UNION {[1..m -> AttrValues] : m \in {n - 1, n} \cap Nat}

SeriesInputs ==
  UNION {{[k \in 1..Len(ks) |->
             [key |-> ks[k],
              values |-> IF ks[k] = "time" THEN dates ELSE f[ks[k]]]] :
            f \in [KeyNames \ {"time"} -> AttrLists(Len(dates))]} :
         ks \in KeyOrders, dates \in TimeInputs}

\* the dates the store may hold already
ExistingInputs == SUBSET ((StartDay - MaxLen + 1)..StartDay)

\* CurrentWeatherCode of the statistics row
CodeInputs == {None} \cup 0..MaxCode

FunctionInputs ==
  {[NoInput EXCEPT !.op = "prepare", !.city = c, !.daily_data = dd] :
     c \in Cities, dd \in SeriesInputs}
  \cup
  {[NoInput EXCEPT !.op = "filter", !.daily_data = dd, !.existing_dates = e] :
     dd \in SeriesInputs, e \in ExistingInputs}
  \cup
  {[NoInput EXCEPT !.op = "stats", !.weather_code = code] : code \in CodeInputs}

InitFunctions ==
  /\ store = [x \in Cities |-> EmptyRows]
  /\ InitService
  /\ input \in FunctionInputs
  /\ output = NoOutput
  /\ program = "image"

\* prepare_ingestion_data(city, daily_data)
PrepareIngestionData ==
  /\ input.op = "prepare"
  /\ output = NoOutput
  /\ output' = [op |-> "prepare",
                result |-> prepare_ingestion_data(input.city, input.daily_data)]
  /\ UNCHANGED <<env, pc, locals, outcome, counters, racing, started, overlapped, input, program>>

\* the dedup filter of ensure_fresh_data, and the branch on what it kept; an
\* exception in it is caught and ensure_fresh_data returns False
FilterDailyData ==
  /\ input.op = "filter"
  /\ output = NoOutput
  /\ output' =
       IF FilterRaises(input.daily_data, input.existing_dates)
         THEN [op |-> "filter", returned |-> "false", daily_data |-> <<>>]
         ELSE LET filtered == filtered_daily_data(input.daily_data,
                                                  input.existing_dates) IN
              IF Values(filtered, "time") = <<>>
                THEN [op |-> "filter", returned |-> "true", daily_data |-> filtered]
                ELSE [op |-> "filter", returned |-> "none", daily_data |-> filtered]
  /\ UNCHANGED <<env, pc, locals, outcome, counters, racing, started, overlapped, input, program>>

\* get_weather_stats on a result row: the description and the icon of the
\* row's CurrentWeatherCode
MapWeatherCode ==
  /\ input.op = "stats"
  /\ output = NoOutput
  /\ output' = [op |-> "stats",
                weather_description |-> weather_description(input.weather_code),
                icon_code |-> icon_code(input.weather_code)]
  /\ UNCHANGED <<env, pc, locals, outcome, counters, racing, started, overlapped, input, program>>

NextFunctions ==
  \/ PrepareIngestionData
  \/ FilterDailyData
  \/ MapWeatherCode

SpecFunctions == InitFunctions /\ [][NextFunctions]_vars

\* ---- what the claims speak of -------------------------------------------
\* the number of queryable rows of a city
RowCount(c) ==
  Cardinality({x \in Dates \X (1..(MaxStarted + 1)) : x[2] <= store[c][x[1]]})

\* the stored data of a city is fresh: there are rows, the latest stored date
\* is within 1 day of today, and there are at least 30 rows
StoredFresh(c) ==
  \E d \in Dates :
    /\ store[c][d] > 0
    /\ \A e \in Dates : e > d => store[c][e] = 0
    /\ today - d <= 1
    /\ d - today <= 1
    /\ RowCount(c) >= 30

NoStoredRows(c) == \A d \in Dates : store[c][d] = 0

\* request r takes the step of its initial freshness check
InitialCheckStep(r) == pc[r] = "check" /\ pc'[r] # "check"

NoRefreshCalls(r) ==
  fetch_calls'[r] = 0 /\ existing_calls'[r] = 0 /\ ingest_calls'[r] = 0

\* ---- C1 -----------------------------------------------------------------
\* C1 (as claimed): for every city whose stored data is fresh when
\* ensure_fresh_data starts, ensure_fresh_data returns success and makes no
\* forecast fetch, no existing-dates query and no ingest call.
C1_FreshReturnsSuccess ==
  [][\A r \in Requests :
       (InitialCheckStep(r) /\ StoredFresh(city[r]))
         => (efd_result'[r] = "true" /\ NoRefreshCalls(r))]_vars

\* C1 (amended): for every city whose stored data is fresh when
\* ensure_fresh_data starts, ensure_fresh_data makes no forecast fetch, no
\* existing-dates query and no ingest call, and it returns success whenever
\* its freshness query completes; when the query raises, the exception leaves
\* ensure_fresh_data and get_weather answers with its error text.
C1_FreshMakesNoCalls ==
  [][\A r \in Requests :
       (InitialCheckStep(r) /\ StoredFresh(city[r]))
         => /\ NoRefreshCalls(r)
            /\ last_check'[r] \in {"fresh", "error"}
            /\ last_check'[r] = "fresh"
                 => (efd_result'[r] = "true" /\ pc'[r] = "stats")
            /\ last_check'[r] = "error"
                 => (efd_result'[r] = "raised" /\ pc'[r] = "done"
                     /\ response'[r] = "error_occurred")]_vars

\* a request found its city fresh and went on to the statistics at once
C1_Witness ==
  \E r \in Requests :
    /\ pc[r] = "stats"
    /\ StoredFresh(city[r])
    /\ last_check[r] = "fresh"
    /\ efd_result[r] = "true"
    /\ check_calls[r] = 1
    /\ fetch_calls[r] = 0 /\ existing_calls[r] = 0 /\ ingest_calls[r] = 0

\* ---- C2 -----------------------------------------------------------------
\* C2 (as claimed): when requests run one after the other (never two at a
\* time) on the same day, hence over the same fetched date range, the store
\* holds at most one row per (city, date): a later run never appends a date
\* an earlier run appended.
C2_SequentialRunsLeaveOneRowPerDate ==
  ~overlapped => \A c \in Cities, d \in Dates : store[c][d] <= 1

\* ---- C3 -----------------------------------------------------------------
StatsReached(r) == pc[r] = "stats" \/ stats_calls[r] > 0

\* C3 (as claimed): get_weather_stats is called only after ensure_fresh_data
\* returned success, and never in a request whose most recent freshness check
\* reported not-fresh.
C3_StatsOnlyAfterFreshCheck ==
  \A r \in Requests :
    StatsReached(r) => (efd_result[r] = "true" /\ last_check[r] # "stale")

\* C3 (amended): get_weather_stats is called only after ensure_fresh_data
\* returned success; the request's most recent freshness check reported
\* fresh, except on the no-new-dates path, where the check reported not-fresh,
\* the dedup filter left nothing to ingest and ensure_fresh_data returned
\* success without an ingest call.
C3_StatsOnlyAfterSuccess ==
  \A r \in Requests :
    StatsReached(r) =>
      /\ efd_result[r] = "true"
      /\ last_check[r] \in {"fresh", "stale"}
      /\ last_check[r] = "stale" =>
           (check_calls[r] = 1 /\ fetch_calls[r] = 1
            /\ existing_calls[r] = 1 /\ ingest_calls[r] = 0)

\* one request computed statistics after its refresh verified fresh, another
\* after a not-fresh check whose dedup left no new dates
C3_Witness ==
  \E r, o \in Requests :
    /\ stats_calls[r] = 1 /\ efd_result[r] = "true"
    /\ ingest_calls[r] = 1 /\ check_calls[r] = 2 /\ last_check[r] = "fresh"
    /\ stats_calls[o] = 1 /\ efd_result[o] = "true"
    /\ ingest_calls[o] = 0 /\ last_check[o] = "stale"

\* ---- C4 -----------------------------------------------------------------
\* request r takes a step in which check_data_freshness returned a result
CheckReturned(r) ==
  /\ pc[r] \in {"check", "verify"}
  /\ pc'[r] # pc[r]
  /\ last_check'[r] \in {"fresh", "stale"}

\* C4: check_data_freshness returns is_fresh = true exactly when the city has
\* stored rows, the latest stored date is at most 1 day from today and the
\* row count is at least 30; with no rows it returns (false, empty), and with
\* 29 rows and the latest date equal to today it returns false.
C4_FreshnessRule ==
  [][\A r \in Requests :
       CheckReturned(r) =>
         /\ (last_check'[r] = "fresh") <=> StoredFresh(city[r])
         /\ (NoStoredRows(city[r]) /\ pc[r] = "check")
              => (~is_fresh'[r] /\ latest_date'[r] = NoDate /\ pc'[r] = "fetch")
         /\ (~NoStoredRows(city[r]) /\ pc'[r] = "fetch")
              => /\ store[city[r]][latest_date'[r]] > 0
                 /\ \A e \in Dates : e > latest_date'[r] => store[city[r]][e] = 0
         /\ (RowCount(city[r]) = 29 /\ store[city[r]][today] > 0)
              => last_check'[r] = "stale"]_vars

\* the boundary: a check found 29 rows, the latest of today, and said stale
C4_Witness ==
  \E r \in Requests :
    /\ pc[r] = "fetch"
    /\ last_check[r] = "stale"
    /\ ~is_fresh[r]
    /\ latest_date[r] = today
    /\ RowCount(city[r]) = 29

\* ---- C5 -----------------------------------------------------------------
\* request r takes the step in which ingest_from_stream returns
IngestReturned(r) == pc[r] = "ingest" /\ pc'[r] = "verify"

\* C5: in every execution of ensure_fresh_data, no date of the existing-dates
\* set the request read for its city is in the series that is passed to
\* prepare_ingestion_data and ingested.
C5_NoExistingDateIngested ==
  [][\A r \in Requests :
       IngestReturned(r) =>
         /\ Len(pending') = Len(pending) + 1
         /\ LET batch == pending'[Len(pending')] IN
              /\ Len(batch) > 0
              /\ \A j \in 1..Len(batch) :
                   /\ RowCity(batch[j]) = city[r]
                   /\ RowDate(batch[j]) \notin existing_dates[r]]_vars

\* a refresh whose filter dropped some dates and kept others was ingested
C5_Witness ==
  \E r \in Requests :
    /\ pc[r] = "verify"
    /\ ingest_calls[r] = 1
    /\ existing_dates[r] # {}
    /\ Len(daily_time[r]) > 0
    /\ Len(daily_time[r]) < PAST_DAYS + FORECAST_DAYS
    /\ \A i \in 1..Len(daily_time[r]) : daily_time[r][i] \notin existing_dates[r]

\* ---- C6 -----------------------------------------------------------------
\* the ingest call of request r returned, and the refresh has ended
IngestedAndReturned(r) ==
  /\ ingest_calls[r] = 1
  /\ failure[r] # "IngestionFailure"
  /\ pc[r] \in {"stats", "main_stats", "done"}

\* C6: after an ingest call that returned successfully, the freshness check
\* has run again (in ensure_fresh_data; in src/main.py the record count,
\* after the pause), and if that check reported not-fresh the refresh
\* failed: ensure_fresh_data returned failure, the request got the error
\* answer and computed no statistics.
C6_StaleRecheckFails ==
  \A r \in Requests :
    IngestedAndReturned(r) =>
      /\ check_calls[r] = 2
      /\ last_check[r] # "none"
      /\ last_check[r] = "stale" =>
           /\ pc[r] = "done"
           /\ stats_calls[r] = 0
           /\ failure[r] = "VerificationFailure"
           /\ \/ efd_result[r] = "false" /\ response[r] = "could_not_ensure"
              \/ efd_result[r] = "none" /\ response[r] = "verification_failed"

\* the appended rows were not queryable at the re-check of
\* ensure_fresh_data: the request failed
C6_Witness ==
  \E r \in Requests :
    /\ program = "image"
    /\ pc[r] = "done"
    /\ ingest_calls[r] = 1
    /\ check_calls[r] = 2
    /\ last_check[r] = "stale"
    /\ failure[r] = "VerificationFailure"
    /\ efd_result[r] = "false"
    /\ stats_calls[r] = 0
    /\ \E i \in 1..Len(pending) : RowCity(pending[i][1]) = city[r]

\* ---- C7 -----------------------------------------------------------------
\* C7 (as claimed): a request whose forecast fetch failed, or came without
\* `daily`, made no ingest call, and its answer differs from the answer of
\* every request that failed in another way.
C7_FetchFailureIsDistinct ==
  \A r \in Requests :
    (pc[r] = "done" /\ failure[r] = "UpstreamFetchFailure") =>
      /\ ingest_calls[r] = 0
      /\ response[r] # "rendered"
      /\ \A o \in Requests :
           (pc[o] = "done" /\ failure[o] \notin {"none", "UpstreamFetchFailure"})
             => response[o] # response[r]

\* ---- C8 -----------------------------------------------------------------
\* C8 (as claimed): a request whose freshness check (the initial one or the
\* one after the ingest) failed on the store query ends there, with no fetch
\* or ingest after the failed check, and with an answer that differs from
\* the answer of a request whose check reported stale data.
C8_UnreachableIsNotStale ==
  \A r \in Requests :
    last_check[r] = "error" =>
      /\ pc[r] = "done"
      /\ stats_calls[r] = 0
      /\ check_calls[r] = 1 => (fetch_calls[r] = 0 /\ ingest_calls[r] = 0)
      /\ check_calls[r] = 2 => (fetch_calls[r] = 1 /\ ingest_calls[r] = 1)
      /\ \A o \in Requests :
           (pc[o] = "done" /\ failure[o] = "VerificationFailure")
             => response[o] # response[r]

\* ---- C9 -----------------------------------------------------------------
\* the rows of the series of request r
SeriesRows(r) ==
  [i \in 1..Len(daily_time[r]) |-> <<city[r], ",", daily_time[r][i]>>]

\* C9: requests for one city are not coordinated: the ingest step appends the
\* whole series the request filtered against its own earlier snapshot,
\* whatever other requests have appended since, so that two requests that
\* both read their snapshot before the other's ingest both append a date.
C9_IngestIsUncoordinated ==
  [][\A r \in Requests :
       IngestReturned(r) =>
         /\ pending' = Append(pending, SeriesRows(r))
         /\ store' = store]_vars

\* both requests saw not-fresh, each read its snapshot before the other's
\* ingest, both appended date d, and the store holds two rows for it
C9_Witness ==
  \E r, o \in Requests : \E d \in Dates :
    /\ r # o
    /\ city[r] = city[o]
    /\ pc[r] = "verify" /\ pc[o] = "verify"
    /\ ~is_fresh[r] /\ ~is_fresh[o]
    /\ existing_calls[r] = 1 /\ existing_calls[o] = 1
    /\ o \in racing[r] /\ r \in racing[o]
    /\ ingest_calls[r] = 1 /\ ingest_calls[o] = 1
    /\ \E i \in 1..Len(daily_time[r]) : daily_time[r][i] = d
    /\ \E i \in 1..Len(daily_time[o]) : daily_time[o][i] = d
    /\ pending = <<>>
    /\ store[city[r]][d] = 2

\* ---- C10 ----------------------------------------------------------------
ErrorMessages ==
  {"not_initialized", "invalid_city", "inaccurate_city", "could_not_ensure",
   "no_data", "error_occurred",
   "could_not_find_coordinates", "invalid_weather_api", "could_not_prepare",
   "verification_failed", "error_storing"}

FailureKinds ==
  {"UnresolvedCity", "AmbiguousCity", "UpstreamFetchFailure", "StoreUnavailable",
   "IngestionFailure", "VerificationFailure", "NoDataFound"}

\* C10: every /weather request that ended carries a user-visible message or
\* the rendered statistics: a failure of any kind ended in one of the
\* handler's messages, and no exception left get_weather.
C10_NoExceptionEscapes ==
  \A r \in Requests :
    pc[r] = "done" =>
      /\ response[r] \in ErrorMessages \cup {"rendered"}
      /\ failure[r] \in FailureKinds \cup {"none"}
      /\ failure[r] \in FailureKinds <=> response[r] \in ErrorMessages

\* in src/main.py the geocoder's (None, None), which does not unpack into
\* three names, and an exception of the statistics query were both turned
\* into the handler's message
C10_Witness ==
  \E r, o \in Requests :
    /\ program = "main"
    /\ pc[r] = "done" /\ stats_calls[r] = 1
    /\ failure[r] = "StoreUnavailable" /\ response[r] = "error_occurred"
    /\ pc[o] = "done" /\ check_calls[o] = 0 /\ failure[o] = "UnresolvedCity"
    /\ response[o] = "error_occurred"

\* ---- C11 ----------------------------------------------------------------
\* a daily series: it has time, and every list has the length of time
IsDailySeries(daily_data) ==
  /\ HasKey(daily_data, "time")
  /\ \A k \in 1..Len(daily_data) :
       Len(daily_data[k].values) = Len(Values(daily_data, "time"))

\* the entry of the a-th key that is not time
NonTimeEntry(daily_data, a) ==
  LET t == CHOOSE i \in 1..Len(daily_data) : daily_data[i].key = "time" IN
  IF a < t THEN daily_data[a] ELSE daily_data[a + 1]

\* the fields of a CSV row: what stands between its commas
FieldCount(row) == (Len(row) + 1) \div 2
Field(row, k) == row[2 * k - 1]

\* C11: for every daily series whose attribute lists all have the length of
\* time, prepare_ingestion_data returns exactly len(time) rows, and every row
\* has exactly 2 + (number of non-time attributes) fields: the city, the
\* date, then the attributes' values in the key order of the series.
C11_RowsAndFields ==
  (output.op = "prepare" /\ IsDailySeries(input.daily_data)) =>
    LET daily_data == input.daily_data
        dates == Values(daily_data, "time")
        n == Len(daily_data) - 1
        rows == output.result.ingestion_data
    IN /\ output.result.ok
       /\ Len(rows) = Len(dates)
       /\ \A i \in 1..Len(rows) :
            /\ Len(rows[i]) = 2 * (2 + n) - 1
            /\ FieldCount(rows[i]) = 2 + n
            /\ \A k \in 1..(1 + n) : rows[i][2 * k] = ","
            /\ Field(rows[i], 1) = input.city
            /\ Field(rows[i], 2) = dates[i]
            /\ \A a \in 1..n :
                 LET value == NonTimeEntry(daily_data, a).values[i] IN
                 Field(rows[i], 2 + a) = IF value = None THEN "" ELSE ToString(value)

\* a series of two attributes around time, over several days, with a None
\* and a number on its first day, was turned into rows of four fields
C11_Witness ==
  /\ output.op = "prepare"
  /\ IsDailySeries(input.daily_data)
  /\ Len(input.daily_data) = 3
  /\ input.daily_data[2].key = "time"
  /\ Len(input.daily_data[2].values) >= 2
  /\ input.daily_data[1].values[1] = None
  /\ input.daily_data[3].values[1] # None
  /\ output.result.ok
  /\ Len(output.result.ingestion_data) = Len(input.daily_data[2].values)
  /\ FieldCount(output.result.ingestion_data[1]) = 4
  /\ Field(output.result.ingestion_data[1], 3) = ""

\* ---- C12 ----------------------------------------------------------------
\* the codes the lookup table knows
KnownCodes == DOMAIN weather_codes

\* get_weather_stats mapped a weather code, and did it by the table: a known
\* code to its description and icon, code 0 to "Clear sky" and 01d, every
\* other code to "Unknown" and 01d
MappedByTable ==
  LET weather_code == input.weather_code IN
  /\ DOMAIN icon_map = KnownCodes
  /\ weather_code \in KnownCodes =>
       /\ output.weather_description = weather_codes[weather_code]
       /\ output.weather_description # "Unknown"
       /\ output.icon_code = icon_map[weather_code]
  /\ weather_code = 0 =>
       (output.weather_description = "Clear sky" /\ output.icon_code = "01d")
  /\ weather_code \notin KnownCodes =>
       (output.weather_description = "Unknown" /\ output.icon_code = "01d")

\* C12 (as claimed): get_weather_stats maps the current weather code through
\* a fixed lookup table of 23 known codes, each with a description and an
\* icon; code 0 maps to "Clear sky" with icon 01d, and every code outside the
\* table (such as 7) maps to "Unknown" with icon 01d.
C12_TableOf23Codes ==
  output.op = "stats" => (Cardinality(KnownCodes) = 23 /\ MappedByTable)

\* C12 (amended): get_weather_stats maps the current weather code through a
\* fixed lookup table of 24 known codes, each with a description and an
\* icon; code 0 maps to "Clear sky" with icon 01d, and every code outside the
\* table (such as 7, or a missing code) maps to "Unknown" with icon 01d.
C12_TableOf24Codes ==
  output.op = "stats" => (Cardinality(KnownCodes) = 24 /\ MappedByTable)

\* code 7, which the table does not know, was mapped to "Unknown" and 01d
C12_Witness ==
  /\ output.op = "stats"
  /\ input.weather_code = 7
  /\ input.weather_code \notin KnownCodes
  /\ output.weather_description = "Unknown"
  /\ output.icon_code = "01d"

\* ---- C13 ----------------------------------------------------------------
\* the ingest call of request r failed, or the check after it did not pass
IngestOrVerificationFailed(r) ==
  failure[r] \in {"IngestionFailure", "VerificationFailure"}

\* C13: within one request the store's ingest interface is called at most
\* once and the forecast is fetched at most once: a request whose ingest call
\* failed, or whose check after the ingest reported not-fresh, has ended
\* with no further ingest call or fetch, ensure_fresh_data returned failure
\* and the caller got the error answer.
C13_NoRetryInRequest ==
  \A r \in Requests :
    /\ ingest_calls[r] <= 1
    /\ fetch_calls[r] <= 1
    /\ check_calls[r] <= 2
    /\ IngestOrVerificationFailed(r) =>
         /\ pc[r] = "done"
         /\ fetch_calls[r] = 1
         /\ ingest_calls[r] = 1
         /\ efd_result[r] = "false"
         /\ response[r] = "could_not_ensure"
         /\ stats_calls[r] = 0

\* one request ended on a failed ingest call, another on a failed
\* verification, each after one fetch and one ingest call
C13_Witness ==
  \E r, o \in Requests :
    /\ pc[r] = "done" /\ failure[r] = "IngestionFailure"
    /\ fetch_calls[r] = 1 /\ ingest_calls[r] = 1 /\ check_calls[r] = 1
    /\ response[r] = "could_not_ensure"
    /\ pc[o] = "done" /\ failure[o] = "VerificationFailure"
    /\ fetch_calls[o] = 1 /\ ingest_calls[o] = 1 /\ check_calls[o] = 2
    /\ response[o] = "could_not_ensure"

\* ---- C14 ----------------------------------------------------------------
\* the dedup filter ran to its end on the input series
FilterCompleted == output.op = "filter" /\ output.returned # "false"

\* C14: the dedup filter keeps index alignment: the filtered series has the
\* keys of the fetched series, every list in it has the length of the
\* filtered time list, the filtered time list is the dates that are not in
\* the existing-dates set in their original order, and at each kept position
\* every list holds the value that stood at the index of that date in the
\* fetched series. On a series whose lists all have the length of time the
\* filter runs to its end.
C14_FilterKeepsAlignment ==
  /\ (output.op = "filter" /\ IsDailySeries(input.daily_data)) => FilterCompleted
  /\ FilterCompleted =>
       LET daily_data == input.daily_data
           filtered == output.daily_data
           dates == Values(daily_data, "time")
           kept_dates == Values(filtered, "time")
           index(j) == CHOOSE i \in 1..Len(dates) : dates[i] = kept_dates[j]
       IN /\ Keys(filtered) = Keys(daily_data)
          /\ \A k \in 1..Len(filtered) : Len(filtered[k].values) = Len(kept_dates)
          /\ {kept_dates[j] : j \in 1..Len(kept_dates)} =
               {dates[i] : i \in 1..Len(dates)} \ input.existing_dates
          /\ \A j \in 1..Len(kept_dates) :
               /\ \E i \in 1..Len(dates) : dates[i] = kept_dates[j]
               /\ \A k \in 1..Len(filtered) :
                    filtered[k].values[j] = daily_data[k].values[index(j)]
          /\ \A j1, j2 \in 1..Len(kept_dates) : j1 < j2 => index(j1) < index(j2)
          /\ output.returned = "true" <=> kept_dates = <<>>

\* of three days the store held the middle one: the filter kept the first
\* and the third, and with them the attribute values of those two days,
\* which differ from the value of the day it dropped
C14_Witness ==
  /\ FilterCompleted
  /\ IsDailySeries(input.daily_data)
  /\ Len(input.daily_data) = 3
  /\ input.daily_data[1].key = "time"
  /\ Len(input.daily_data[1].values) = 3
  /\ input.existing_dates = {input.daily_data[1].values[2]}
  /\ input.daily_data[2].values = <<0, None, 0>>
  /\ input.daily_data[3].values = <<None, 0, 0>>
  /\ output.returned = "none"
  /\ output.daily_data[1].values =
       <<input.daily_data[1].values[1], input.daily_data[1].values[3]>>
  /\ output.daily_data[2].values = <<0, 0>>
  /\ output.daily_data[3].values = <<None, 0>>
====
